---- MODULE Spec2Model ----
(***************************************************************************)
(* Model of client/src/pages/Home.tsx (RO-Desalination): the Home          *)
(* component's state (dataRows, predictedPressure, formData), its six      *)
(* input onChange handlers, the Calculate button (calculateMinimumPressure)*)
(* and the asynchronous sample-data load (loadData).                       *)
(*                                                                         *)
(* JavaScript numbers are modelled as sign-magnitude decimal fixed-point   *)
(* values with NumLimbs limbs of radix Radix, FracLimbs of them fractional *)
(* (a grid of 10^-12), plus NaN and the two infinities.  Every arithmetic  *)
(* operation rounds its exact result to the nearest grid value, as an      *)
(* IEEE-754 operation rounds to the nearest double; signed zero, NaN and   *)
(* infinity follow the IEEE-754 rules the code relies on.                  *)
(***************************************************************************)
EXTENDS Integers, Sequences, FiniteSets, TLC

-----------------------------------------------------------------------------
(* Magnitudes: little-endian sequences of NumLimbs limbs, each in          *)
(* 0..Radix-1; limb i weighs Radix^(i-1-FracLimbs).                        *)

Radix == 10000
RadixDigits == 4
NumLimbs == 5
FracLimbs == 3

RECURSIVE Pow10(_)
Pow10(n) == IF n = 0 THEN 1 ELSE 10 * Pow10(n - 1)

RECURSIVE Tab(_, _, _)
\* The sequence <<F(i), ..., F(n)>>, built limb by limb.
Tab(F(_), i, n) == IF i > n THEN <<>> ELSE <<F(i)>> \o Tab(F, i + 1, n)

MagZero == Tab(LAMBDA i : 0, 1, NumLimbs)

MagIsZero(a) == \A i \in 1..Len(a) : a[i] = 0

RECURSIVE CarryFrom(_, _, _)
\* Propagate carries through v from limb i on; a carry out of the top is dropped.
CarryFrom(v, i, c) ==
    IF i > Len(v) THEN <<>>
    ELSE LET t == v[i] + c
         IN  <<t % Radix>> \o CarryFrom(v, i + 1, t \div Radix)

RECURSIVE BorrowFrom(_, _, _, _)
\* a - b limb by limb, for a >= b.
BorrowFrom(a, b, i, br) ==
    IF i > Len(a) THEN <<>>
    ELSE LET t == a[i] - b[i] - br
         IN  IF t < 0 THEN <<t + Radix>> \o BorrowFrom(a, b, i + 1, 1)
                      ELSE <<t>> \o BorrowFrom(a, b, i + 1, 0)

RECURSIVE MagLessFrom(_, _, _)
MagLessFrom(a, b, i) ==
    IF i = 0 THEN FALSE
    ELSE IF a[i] # b[i] THEN a[i] < b[i]
    ELSE MagLessFrom(a, b, i - 1)

\* a < b, for magnitudes of the same length
MagLess(a, b) == MagLessFrom(a, b, Len(a))

MagAdd(a, b) == CarryFrom(Tab(LAMBDA i : a[i] + b[i], 1, Len(a)), 1, 0)

MagSub(a, b) == BorrowFrom(a, b, 1, 0)

RECURSIVE ConvSum(_, _, _, _)
\* sum of a[i] * b[k + 1 - i] for i in lo..hi
ConvSum(a, b, k, i) ==
    IF i > Len(a) \/ i > k THEN 0
    ELSE (IF k + 1 - i <= Len(b) THEN a[i] * b[k + 1 - i] ELSE 0)
         + ConvSum(a, b, k, i + 1)

\* The exact product, Len(a) + Len(b) limbs.
MagMulFull(a, b) ==
    CarryFrom(Tab(LAMBDA k : ConvSum(a, b, k, 1), 1, Len(a) + Len(b)), 1, 0)

\* v shifted up by n limbs (multiplied by Radix^n), Len(v) + n limbs
MagShift(v, n) == Tab(LAMBDA i : 0, 1, n) \o v

\* v extended with zero limbs at the top to n limbs
MagExtend(v, n) == v \o Tab(LAMBDA i : 0, 1, n - Len(v))

MagOneUlp == Tab(LAMBDA i : IF i = 1 THEN 1 ELSE 0, 1, NumLimbs)

\* The product rounded to the nearest grid value (ties away from zero).
MagMul(a, b) ==
    LET full == MagMulFull(a, b)
        kept == SubSeq(full, FracLimbs + 1, FracLimbs + NumLimbs)
    IN  IF 2 * full[FracLimbs] >= Radix THEN MagAdd(kept, MagOneUlp) ELSE kept

RECURSIVE MulSmallFrom(_, _, _, _)
MulSmallFrom(a, d, i, c) ==
    IF i > Len(a) THEN <<c>>
    ELSE LET t == a[i] * d + c
         IN  <<t % Radix>> \o MulSmallFrom(a, d, i + 1, t \div Radix)

\* a * d for a single limb d, Len(a) + 1 limbs
MagMulSmall(a, d) == MulSmallFrom(a, d, 1, 0)

RECURSIVE DigitSearch(_, _, _)
\* The largest d in lo..hi for which Ok(d) holds; Ok holds at lo and on an
\* initial stretch of lo..hi only.
DigitSearch(Ok(_), lo, hi) ==
    IF lo = hi THEN lo
    ELSE LET mid == (lo + hi + 1) \div 2
         IN  IF Ok(mid) THEN DigitSearch(Ok, mid, hi)
                        ELSE DigitSearch(Ok, lo, mid - 1)

\* The largest limb d for which Ok(d) holds (Ok(0) holds), looked for at the
\* estimate e and next to it first.
NarrowSearch(Ok(_), e) ==
    IF Ok(e)
    THEN IF e = Radix - 1 THEN e
         ELSE IF Ok(e + 1) THEN DigitSearch(Ok, e + 1, Radix - 1) ELSE e
    ELSE IF Ok(e - 1) THEN e - 1 ELSE DigitSearch(Ok, 0, e - 2)

RECURSIVE TopLimb(_, _)
\* The index of the highest nonzero limb among limbs 1..i of v, or 0.
TopLimb(v, i) == IF i = 0 \/ v[i] # 0 THEN i ELSE TopLimb(v, i - 1)

LimbAt(v, i) == IF i >= 1 /\ i <= Len(v) THEN v[i] ELSE 0

RECURSIVE WideDivFrom(_, _, _, _, _)
\* (r * 10^j + the low j decimal digits of y) / dtop added to q * 10^j
WideDivFrom(r, q, y, j, dtop) ==
    IF j = 0 THEN q
    ELSE LET r1 == r * 10 + ((y \div Pow10(j - 1)) % 10)
         IN  WideDivFrom(r1 % dtop, q * 10 + r1 \div dtop, y, j - 1, dtop)

\* An estimate in 0..Radix-1 of c / v from their leading limbs.
Estimate(c, v) ==
    LET t == TopLimb(v, Len(v))
        sat == Radix - 1
    IN  IF t = 0 THEN 0
        ELSE IF TopLimb(c, Len(c)) > t + 1 THEN sat
        ELSE IF t = 1
             THEN LET q == (LimbAt(c, 2) * Radix + c[1]) \div v[1]
                  IN  IF q > sat THEN sat ELSE q
        ELSE LET dtop == v[t] * Radix + v[t - 1]
                 x == LimbAt(c, t + 1) * Radix + c[t]
             IN  IF x \div dtop >= 1 THEN sat
                 ELSE LET q == WideDivFrom(x, 0, c[t - 1], RadixDigits, dtop)
                      IN  IF q > sat THEN sat ELSE q

RECURSIVE DivFrom(_, _, _, _)
\* Long division of limbs i..1 of n by b, with r < b the remainder so far
\* (Len(b) + 1 limbs): the quotient's limbs i..1 and the final remainder.
DivFrom(n, b, i, r) ==
    IF i = 0 THEN [q |-> <<>>, r |-> r]
    ELSE LET r1 == <<n[i]>> \o SubSeq(r, 1, Len(b))
             Ok(d) == ~MagLess(r1, MagMulSmall(b, d))      \* d * b <= r1
             d == IF MagLess(r1, b \o <<0>>) THEN 0
                  ELSE NarrowSearch(Ok, Estimate(r1, b))
             rest == DivFrom(n, b, i - 1,
                             IF d = 0 THEN r1 ELSE MagSub(r1, MagMulSmall(b, d)))
         IN  [q |-> rest.q \o <<d>>, r |-> rest.r]

\* a / b for b # 0, rounded to the nearest grid value.
MagDiv(a, b) ==
    LET n == MagShift(a, FracLimbs)                        \* a * Radix^FracLimbs
        res == DivFrom(n, b, Len(n), MagExtend(MagZero, Len(b) + 1))
        q == SubSeq(res.q, 1, NumLimbs)
    IN  IF ~MagLess(MagAdd(res.r, res.r), MagExtend(b, Len(b) + 1))   \* 2 r >= b
        THEN MagAdd(q, MagOneUlp) ELSE q

RECURSIVE SqrtFrom(_, _, _, _)
\* Longhand square root of the limb pairs j..1 of n, with p the root so far and
\* r the remainder so far (NumLimbs limbs each): the root and the final remainder.
SqrtFrom(n, j, p, r) ==
    IF j = 0 THEN [p |-> p, r |-> r]
    ELSE LET c == <<n[2 * j - 1], n[2 * j]>> \o r            \* r * Radix^2 + pair
             p2 == MagAdd(p, p)
             T(d) == MagMulSmall(<<d>> \o p2, d)            \* (2 p Radix + d) * d
             Ok(d) == ~MagLess(c, T(d))
             Sq(e) == e * e <= c[2] * Radix + c[1]
             e0 == IF MagIsZero(p) THEN DigitSearch(Sq, 0, Radix - 1)
                   ELSE Estimate(c, <<0>> \o p2)
             e1 == Estimate(c, <<e0>> \o p2)
             e2 == IF MagIsZero(p) THEN e0 ELSE Estimate(c, <<e1>> \o p2)
             d == NarrowSearch(Ok, e2)
         IN  SqrtFrom(n, j - 1, <<d>> \o SubSeq(p, 1, NumLimbs - 1),
                      SubSeq(MagSub(c, T(d)), 1, NumLimbs))

\* sqrt(a), rounded to the nearest grid value.
MagSqrt(a) ==
    LET n == MagShift(a, FracLimbs)                        \* a * Radix^FracLimbs
        res == SqrtFrom(n, Len(n) \div 2, MagZero, MagZero)
    IN  IF MagLess(res.p, res.r) THEN MagAdd(res.p, MagOneUlp) ELSE res.p

-----------------------------------------------------------------------------
(* Numbers: finite sign-magnitude values (so -0 exists), NaN, +-Infinity.  *)

Fin(s, m) == [k |-> "fin", s |-> s, m |-> m]
NaN == [k |-> "nan", s |-> 1, m |-> MagZero]
Inf(s) == [k |-> "inf", s |-> s, m |-> MagZero]

IsNaN(x) == x.k = "nan"
IsFinite(x) == x.k = "fin"
IsZero(x) == x.k = "fin" /\ MagIsZero(x.m)

Neg(x) == IF IsNaN(x) THEN x ELSE [x EXCEPT !.s = -x.s]

\* Math.abs
Abs(x) == IF IsNaN(x) THEN x ELSE [x EXCEPT !.s = 1]

\* x + y
Add(x, y) ==
    IF IsNaN(x) \/ IsNaN(y) THEN NaN
    ELSE IF x.k = "inf" THEN (IF y.k = "inf" /\ y.s # x.s THEN NaN ELSE x)
    ELSE IF y.k = "inf" THEN y
    ELSE IF x.s = y.s THEN Fin(x.s, MagAdd(x.m, y.m))
    ELSE IF x.m = y.m THEN Fin(1, MagZero)
    ELSE IF MagLess(y.m, x.m) THEN Fin(x.s, MagSub(x.m, y.m))
    ELSE Fin(y.s, MagSub(y.m, x.m))

\* x - y
Sub(x, y) == Add(x, Neg(y))

\* x * y
Mul(x, y) ==
    IF IsNaN(x) \/ IsNaN(y) THEN NaN
    ELSE IF x.k = "inf" \/ y.k = "inf"
         THEN (IF IsZero(x) \/ IsZero(y) THEN NaN ELSE Inf(x.s * y.s))
    ELSE Fin(x.s * y.s, MagMul(x.m, y.m))

\* x / y
Div(x, y) ==
    IF IsNaN(x) \/ IsNaN(y) THEN NaN
    ELSE IF x.k = "inf" THEN (IF y.k = "inf" THEN NaN ELSE Inf(x.s * y.s))
    ELSE IF y.k = "inf" THEN Fin(x.s * y.s, MagZero)
    ELSE IF IsZero(y) THEN (IF IsZero(x) THEN NaN ELSE Inf(x.s * y.s))
    ELSE Fin(x.s * y.s, MagDiv(x.m, y.m))

\* Math.sqrt
Sqrt(x) ==
    IF IsNaN(x) THEN NaN
    ELSE IF IsZero(x) THEN x
    ELSE IF x.s = -1 THEN NaN
    ELSE IF x.k = "inf" THEN x
    ELSE Fin(1, MagSqrt(x.m))

\* x === y on numbers: NaN equals nothing, 0 equals -0
NumEq(x, y) ==
    /\ ~IsNaN(x) /\ ~IsNaN(y)
    /\ \/ x = y
       \/ IsZero(x) /\ IsZero(y)

\* x < y
NumLess(x, y) ==
    /\ ~IsNaN(x) /\ ~IsNaN(y)
    /\ ~NumEq(x, y)
    /\ IF x.s # y.s THEN x.s = -1
       ELSE IF x.s = 1
            THEN (IF x.k = "inf" THEN FALSE ELSE IF y.k = "inf" THEN TRUE
                  ELSE MagLess(x.m, y.m))
            ELSE (IF y.k = "inf" THEN FALSE ELSE IF x.k = "inf" THEN TRUE
                  ELSE MagLess(y.m, x.m))

-----------------------------------------------------------------------------
(* Text: a sequence of one-character strings.  parseFloat and toFixed are  *)
(* modelled on such sequences.  Texts of the model hold no exponent part,  *)
(* at most 8 integer digits and at most 12 fractional digits.              *)

Digits == <<"0", "1", "2", "3", "4", "5", "6", "7", "8", "9">>

IsDigit(c) == \E i \in 1..10 : Digits[i] = c

DigitVal(c) == (CHOOSE i \in 1..10 : Digits[i] = c) - 1

InfinityText == <<"I", "n", "f", "i", "n", "i", "t", "y">>
NaNText == <<"N", "a", "N">>

RECURSIVE SkipSpaces(_, _)
\* The first position from i on that holds no white space.
SkipSpaces(t, i) == IF i <= Len(t) /\ t[i] = " " THEN SkipSpaces(t, i + 1) ELSE i

RECURSIVE DigitRun(_, _)
\* The position after the run of digits that starts at i.
DigitRun(t, i) == IF i <= Len(t) /\ IsDigit(t[i]) THEN DigitRun(t, i + 1) ELSE i

\* Limb k of the magnitude whose decimal digits (values, most significant first,
\* the last FracLimbs * RadixDigits of them fractional) are d.
LimbOfDigits(d, k) ==
    LET at(j) == LET pos == Len(d) - RadixDigits * (k - 1) - j
                 IN  IF pos >= 1 THEN d[pos] * Pow10(j) ELSE 0
    IN  at(0) + at(1) + at(2) + at(3)

\* The magnitude of integer digits ip and fraction digits fp (texts of digits).
MagOfDigits(ip, fp) ==
    LET nf == FracLimbs * RadixDigits
        d == Tab(LAMBDA i : DigitVal(ip[i]), 1, Len(ip))
             \o Tab(LAMBDA i : IF i <= Len(fp) THEN DigitVal(fp[i]) ELSE 0, 1, nf)
        m == Tab(LAMBDA k : LimbOfDigits(d, k), 1, NumLimbs)
    IN  IF Len(fp) > nf /\ DigitVal(fp[nf + 1]) >= 5 THEN MagAdd(m, MagOneUlp) ELSE m

\* Text w stands in text t at position i.
HasAt(t, i, w) == i + Len(w) - 1 <= Len(t) /\ SubSeq(t, i, i + Len(w) - 1) = w

\* parseFloat(text): white space, a sign, then "Infinity" or digits with an
\* optional fraction; what follows the longest such prefix is ignored, and
\* a text with no such prefix gives NaN.
ParseFloat(t) ==
    LET i0 == SkipSpaces(t, 1)
        neg == i0 <= Len(t) /\ t[i0] = "-"
        i1 == IF i0 <= Len(t) /\ t[i0] \in {"+", "-"} THEN i0 + 1 ELSE i0
        sgn == IF neg THEN -1 ELSE 1
        i2 == DigitRun(t, i1)
        dot == i2 <= Len(t) /\ t[i2] = "."
        i3 == IF dot THEN DigitRun(t, i2 + 1) ELSE i2
        ip == SubSeq(t, i1, i2 - 1)
        fp == IF dot THEN SubSeq(t, i2 + 1, i3 - 1) ELSE <<>>
    IN  IF HasAt(t, i1, InfinityText) THEN Inf(sgn)
        ELSE IF ip = <<>> /\ fp = <<>> THEN NaN
        ELSE Fin(sgn, MagOfDigits(ip, fp))

RECURSIVE IntText(_)
\* The decimal digits of the natural number n, as text.
IntText(n) ==
    IF n < 10 THEN <<Digits[n + 1]>>
    ELSE IntText(n \div 10) \o <<Digits[(n % 10) + 1]>>

\* The integer part of a magnitude (less than Radix^2).
MagIntPart(m) == m[FracLimbs + 1] + Radix * m[FracLimbs + 2]

MagHalfHundredth == Tab(LAMBDA i : IF i = FracLimbs THEN 50 ELSE 0, 1, NumLimbs)

\* x.toFixed(2): the nearest multiple of 0.01 (the larger on a tie of the
\* magnitude), with "-" for x < 0; "NaN", "Infinity" or "-Infinity" otherwise.
ToFixed2(x) ==
    IF IsNaN(x) THEN NaNText
    ELSE IF x.k = "inf" THEN (IF x.s = -1 THEN <<"-">> ELSE <<>>) \o InfinityText
    ELSE LET y == MagAdd(x.m, MagHalfHundredth)
             h == y[FracLimbs] \div 100
             sign == IF x.s = -1 /\ ~MagIsZero(x.m) THEN <<"-">> ELSE <<>>
         IN  sign \o IntText(MagIntPart(y)) \o <<".">>
                  \o <<Digits[(h \div 10) + 1], Digits[(h % 10) + 1]>>

-----------------------------------------------------------------------------
(* The Home component.                                                     *)

VARIABLES
    dataRows,           \* useState<DataRow[]>([])
    predictedPressure,  \* useState<number | null>(null)
    formData,           \* useState({salinity, ..., foulingFactor})
    loadPc,             \* where loadData stands: "fetch", "text", "done", "failed"
    response,           \* the body of the fetched response, while loadData awaits it
    edits,              \* number of onChange events so far
    lastEdit,           \* history: <<the last onChange event>>, or <<>>
    calcData,           \* history: <<what the last Calculate read>>, or <<>>
    calcLog             \* history: <<formData, result>> of every Calculate so far

vars == <<dataRows, predictedPressure, formData, loadPc, response, edits,
          lastEdit, calcData, calcLog>>

MaxEdits == 2

Null == [k |-> "null", s |-> 1, m |-> MagZero]

\* The numeric literals of the source.
Lit_0_68 == ParseFloat(<<"0", ".", "6", "8">>)
Lit_22 == ParseFloat(<<"2", "2">>)
Lit_7_7 == ParseFloat(<<"7", ".", "7">>)
Lit_5_2 == ParseFloat(<<"5", ".", "2">>)
Lit_50 == ParseFloat(<<"5", "0">>)
Lit_0_1 == ParseFloat(<<"0", ".", "1">>)

InitialFormData ==
    [salinity |-> Lit_0_68, temperature |-> Lit_22, pH |-> Lit_7_7,
     turbidity |-> Lit_5_2, membraneArea |-> Lit_50, foulingFactor |-> Lit_0_1]

\* ensureNumber(value, defaultValue)
\* the fallback written as the parameter's own default, 0
ensureNumber_ZeroDefault(value, defaultValue) ==
    LET num == ParseFloat(value)
    IN  IF IsNaN(num) THEN Fin(1, MagZero) ELSE num

ensureNumber(value, defaultValue) ==
    LET num == ParseFloat(value)
    IN  IF IsNaN(num) THEN defaultValue ELSE num

-----------------------------------------------------------------------------
(* calculateMinimumPressure, line by line, on a formData record fd.        *)

\* the gas constant in L atm / (mol K) instead of L bar / (mol K)
R_LitreAtm == ParseFloat(<<"0", ".", "0", "8", "2", "0", "5", "7">>)

R == ParseFloat(<<"0", ".", "0", "8", "3", "1", "4", "5">>)
Lit_273_15 == ParseFloat(<<"2", "7", "3", ".", "1", "5">>)
vantHoffFactor == ParseFloat(<<"2">>)
Lit_1_6 == ParseFloat(<<"1", ".", "6">>)
Lit_1 == ParseFloat(<<"1">>)
Lit_0_004 == ParseFloat(<<"0", ".", "0", "0", "4">>)
Lit_25 == ParseFloat(<<"2", "5">>)
Lit_32 == ParseFloat(<<"3", "2">>)
Lit_2_5 == ParseFloat(<<"2", ".", "5">>)
optimal_pH == ParseFloat(<<"7", ".", "7", "5">>)
Lit_6_0 == ParseFloat(<<"6", ".", "0">>)
Lit_7_0 == ParseFloat(<<"7", ".", "0">>)

T_K(fd) == Add(fd.temperature, Lit_273_15)

osmotic_pressure(fd) == Mul(Mul(Mul(vantHoffFactor, fd.salinity), R), T_K(fd))

operational_pressure(fd) == Mul(osmotic_pressure(fd), Lit_1_6)

\* the correction with its sign turned: + 0.004 per degree above 25
viscosity_adjustment_Rising(fd) ==
    Add(Lit_1, Mul(Lit_0_004, Sub(fd.temperature, Lit_25)))

viscosity_adjustment(fd) == Sub(Lit_1, Mul(Lit_0_004, Sub(fd.temperature, Lit_25)))

pressure_after_temp(fd) == Mul(operational_pressure(fd), viscosity_adjustment(fd))

fouling_penalty(fd) == Mul(Lit_32, fd.foulingFactor)

\* the penalty taken from the neighbouring field
turbidity_penalty_WrongField(fd) == Mul(Lit_2_5, fd.temperature)

turbidity_penalty(fd) == Mul(Lit_2_5, fd.turbidity)

\* the deviation from the optimum without Math.abs
pH_penalty_Signed(fd) == Mul(Lit_6_0, Sub(fd.pH, optimal_pH))

pH_penalty(fd) == Mul(Lit_6_0, Abs(Sub(fd.pH, optimal_pH)))

\* the scale inverted
area_scaling_factor_Inverted(fd) == Div(Sqrt(fd.membraneArea), Lit_7_0)

area_scaling_factor(fd) == Div(Lit_7_0, Sqrt(fd.membraneArea))

\* the part of the result that the area scales
scaled_pressure(fd) ==
    Mul(Add(Add(pressure_after_temp(fd), turbidity_penalty(fd)), pH_penalty(fd)),
        area_scaling_factor(fd))

\* the fouling penalty inside the parentheses, scaled with the rest
predicted_pressure_ScaledFouling(fd) ==
    Mul(Add(Add(Add(pressure_after_temp(fd), turbidity_penalty(fd)), pH_penalty(fd)),
            fouling_penalty(fd)),
        area_scaling_factor(fd))

predicted_pressure(fd) == Add(scaled_pressure(fd), fouling_penalty(fd))

\* the value handed to setPredictedPressure
\* the commented-out line 105 in force:
\* predicted_pressure = Math.max(35, Math.min(70, predicted_pressure))
calculateMinimumPressure_Clamped(fd) ==
    LET p == predicted_pressure(fd)
        lo == ParseFloat(<<"3", "5">>)
        hi == ParseFloat(<<"7", "0">>)
        capped == IF IsNaN(p) THEN p ELSE IF NumLess(hi, p) THEN hi ELSE p
        clamped == IF IsNaN(p) THEN p ELSE IF NumLess(capped, lo) THEN lo ELSE capped
    IN  ParseFloat(ToFixed2(clamped))

\* the stored value never lowered below the one on display
calculateMinimumPressure_NeverLower(fd) ==
    LET p == ParseFloat(ToFixed2(predicted_pressure(fd)))
    IN  IF predictedPressure.k = "fin" /\ NumLess(p, predictedPressure)
        THEN predictedPressure ELSE p

calculateMinimumPressure(fd) == ParseFloat(ToFixed2(predicted_pressure(fd)))

-----------------------------------------------------------------------------
(* loadData: the sample rows parsed from the response text.                *)

RECURSIVE TrimLeft(_)
TrimLeft(t) ==
    IF t # <<>> /\ t[1] \in {" ", "\n"} THEN TrimLeft(Tail(t)) ELSE t

RECURSIVE TrimRight(_)
TrimRight(t) ==
    IF t # <<>> /\ t[Len(t)] \in {" ", "\n"} THEN TrimRight(SubSeq(t, 1, Len(t) - 1)) ELSE t

\* text.trim()
Trim(t) == TrimRight(TrimLeft(t))

RECURSIVE SplitFrom(_, _, _, _)
\* The pieces of t from position i on, cur being the piece under way.
SplitFrom(t, sep, i, cur) ==
    IF i > Len(t) THEN <<cur>>
    ELSE IF t[i] = sep THEN <<cur>> \o SplitFrom(t, sep, i + 1, <<>>)
    ELSE SplitFrom(t, sep, i + 1, Append(cur, t[i]))

\* text.split(sep), for a one-character separator
Split(t, sep) == SplitFrom(t, sep, 1, <<>>)

UndefinedText == <<"u", "n", "d", "e", "f", "i", "n", "e", "d">>

\* values[k] (k counted from 0) as parseFloat reads it
ValueAt(values, k) == IF k + 1 <= Len(values) THEN values[k + 1] ELSE UndefinedText

\* one element of lines.slice(1, 11).map(...)
RowOfLine(line) ==
    LET values == Split(line, ",")
    IN  [timestamp |-> values[1],
         salinity_mol_L |-> ParseFloat(ValueAt(values, 1)),
         temperature_C |-> ParseFloat(ValueAt(values, 2)),
         pH |-> ParseFloat(ValueAt(values, 3)),
         turbidity_NTU |-> ParseFloat(ValueAt(values, 4)),
         pump_pressure_bar |-> ParseFloat(ValueAt(values, 5)),
         permeate_flow_Lh |-> ParseFloat(ValueAt(values, 6)),
         permeate_conductivity_uScm |-> ParseFloat(ValueAt(values, 7)),
         membrane_area_m2 |-> ParseFloat(ValueAt(values, 8)),
         fouling_factor |-> ParseFloat(ValueAt(values, 9))]

SliceEnd == 11

\* lines.slice(1, 11): the elements at (0-based) positions 1..10
Slice(lines) ==
    IF Len(lines) <= 1 THEN <<>>
    ELSE SubSeq(lines, 2, IF Len(lines) < SliceEnd THEN Len(lines) ELSE SliceEnd)

\* the rows loadData hands to setDataRows
RowsOfText(text) ==
    LET lines == Split(Trim(text), "\n")
        kept == Slice(lines)
    IN  Tab(LAMBDA i : RowOfLine(kept[i]), 1, Len(kept))

-----------------------------------------------------------------------------
(* Inputs: the texts an onChange event may carry (e.target.value) and the  *)
(* bodies the fetch of /sample_data.csv may return.                        *)

salinityTexts == {<<>>, <<"2", ".", "0">>}
temperatureTexts == {<<>>, <<"5">>}
pHTexts == {<<"a", "b", "c">>, <<"7", ".", "8">>}
turbidityTexts == {<<>>, <<"0">>}
membraneAreaTexts == {<<>>, <<"0">>, <<"1", "0">>}
foulingFactorTexts == {<<"-">>, <<"1", ".", "0">>}

RECURSIVE Join(_, _)
\* the lines joined by sep
Join(lines, sep) ==
    IF lines = <<>> THEN <<>>
    ELSE IF Len(lines) = 1 THEN lines[1]
    ELSE lines[1] \o <<sep>> \o Join(Tail(lines), sep)

HeaderLine == <<"t", ",", "s", ",", "c">>
FullLine == <<"a", ",", "0", ".", "7", ",", "2", "5", ",", "7", ",", "5", ",", "5", "5",
              ",", "9", ",", "3", ",", "5", "0", ",", "0", ".", "1">>
ShortLine == <<"b", ",", "1">>

CsvTexts ==
    { Join(<<HeaderLine, FullLine>> \o Tab(LAMBDA i : ShortLine, 1, SliceEnd), "\n")
        \o <<"\n">> }

Init ==
    /\ dataRows = <<>>
    /\ predictedPressure = Null
    /\ formData = InitialFormData
    /\ loadPc = "fetch"
    /\ response = <<>>
    /\ edits = 0
    /\ lastEdit = <<>>
    /\ calcData = <<>>
    /\ calcLog = {}

\* the handler also recomputing the result on display
Edit_Recalculates(field, text, value) ==
    /\ edits < MaxEdits
    /\ edits' = edits + 1
    /\ formData' = [formData EXCEPT ![field] = value]
    /\ lastEdit' = <<[field |-> field, text |-> text, before |-> formData[field]]>>
    /\ predictedPressure' = IF predictedPressure = Null THEN Null
                            ELSE calculateMinimumPressure(formData')
    /\ UNCHANGED <<dataRows, loadPc, response, calcData, calcLog>>

\* the handler also clearing the result on display
Edit_ClearsResult(field, text, value) ==
    /\ edits < MaxEdits
    /\ edits' = edits + 1
    /\ formData' = [formData EXCEPT ![field] = value]
    /\ lastEdit' = <<[field |-> field, text |-> text, before |-> formData[field]]>>
    /\ predictedPressure' = Null
    /\ UNCHANGED <<dataRows, loadPc, response, calcData, calcLog>>

\* an onChange event of the input of a field: the handler stores a new formData
\* object, the copy of the old one with the field replaced
Edit(field, text, value) ==
    /\ edits < MaxEdits
    /\ edits' = edits + 1
    /\ formData' = [formData EXCEPT ![field] = value]
    /\ lastEdit' = <<[field |-> field, text |-> text, before |-> formData[field]]>>
    /\ UNCHANGED <<dataRows, predictedPressure, loadPc, response, calcData, calcLog>>

EditSalinity ==
    \E t \in salinityTexts : Edit("salinity", t, ensureNumber(t, Lit_0_68))

EditTemperature ==
    \E t \in temperatureTexts : Edit("temperature", t, ensureNumber(t, Lit_22))

EditPH ==
    \E t \in pHTexts : Edit("pH", t, ensureNumber(t, Lit_7_7))

EditTurbidity ==
    \E t \in turbidityTexts : Edit("turbidity", t, ensureNumber(t, Lit_5_2))

EditMembraneArea ==
    \E t \in membraneAreaTexts : Edit("membraneArea", t, ensureNumber(t, Lit_50))

EditFoulingFactor ==
    \E t \in foulingFactorTexts : Edit("foulingFactor", t, ensureNumber(t, Lit_0_1))

\* the Calculate button: onClick={calculateMinimumPressure}
Calculate ==
    /\ predictedPressure' = calculateMinimumPressure(formData)
    /\ calcData' = <<[fd |-> formData, prev |-> predictedPressure, rows |-> dataRows,
                      seen |-> \E p \in calcLog : p[1] = formData,
                      repeat |-> calcData # <<>> /\ calcData[1].fd = formData]>>
    /\ calcLog' = calcLog \cup {<<formData, predictedPressure'>>}
    /\ UNCHANGED <<dataRows, formData, loadPc, response, edits, lastEdit>>

\* await fetch('/sample_data.csv') resolves
FetchResolve ==
    /\ loadPc = "fetch"
    /\ \E text \in CsvTexts : response' = text
    /\ loadPc' = "text"
    /\ UNCHANGED <<dataRows, predictedPressure, formData, edits, lastEdit, calcData, calcLog>>

\* await fetch(...) rejects: the catch block logs the error
FetchReject ==
    /\ loadPc = "fetch"
    /\ loadPc' = "failed"
    /\ UNCHANGED <<dataRows, predictedPressure, formData, response, edits, lastEdit,
                   calcData, calcLog>>

\* the load also clearing the result on display
TextResolve_ClearsResult ==
    /\ loadPc = "text"
    /\ dataRows' = RowsOfText(response)
    /\ predictedPressure' = Null
    /\ loadPc' = "done"
    /\ response' = <<>>
    /\ UNCHANGED <<formData, edits, lastEdit, calcData, calcLog>>

\* await response.text() resolves: the rows are parsed and stored
TextResolve ==
    /\ loadPc = "text"
    /\ dataRows' = RowsOfText(response)
    /\ loadPc' = "done"
    /\ response' = <<>>
    /\ UNCHANGED <<predictedPressure, formData, edits, lastEdit, calcData, calcLog>>

\* await response.text() rejects: the catch block logs the error
TextReject ==
    /\ loadPc = "text"
    /\ loadPc' = "failed"
    /\ response' = <<>>
    /\ UNCHANGED <<dataRows, predictedPressure, formData, edits, lastEdit, calcData, calcLog>>

Next ==
    \/ EditSalinity
    \/ EditTemperature
    \/ EditPH
    \/ EditTurbidity
    \/ EditMembraneArea
    \/ EditFoulingFactor
    \/ Calculate
    \/ FetchResolve
    \/ FetchReject
    \/ TextResolve
    \/ TextReject

Spec == Init /\ [][Next]_vars

-----------------------------------------------------------------------------
(* calculateMinimumPressure as a function of the six fields: the form holds   *)
(* any combination of the grid's values and Calculate is pressed.             *)

gridSalinityTexts == {<<"0", ".", "6", "8">>, <<"2", ".", "0">>, <<"0">>}
gridTemperatureTexts == {<<"2", "2">>, <<"5">>, <<"2", "5">>, <<"2", "4", ".", "9">>,
                         <<"5", "0">>}
gridPHTexts == {<<"7", ".", "7">>, <<"7", ".", "8">>, <<"7", ".", "7", "5">>}
gridTurbidityTexts == {<<"5", ".", "2">>, <<"5", ".", "2", "0", "1">>, <<"0">>}
gridMembraneAreaTexts == {<<"5", "0">>, <<"0">>, <<"-", "4">>, <<"1", "0">>}
gridFoulingFactorTexts == {<<"0", ".", "1">>, <<"1", ".", "0">>,
                           <<"0", ".", "1", "0", "0", "1">>}

GridFormData ==
    { [salinity |-> ensureNumber(s, Lit_0_68), temperature |-> ensureNumber(t, Lit_22),
       pH |-> ensureNumber(p, Lit_7_7), turbidity |-> ensureNumber(tb, Lit_5_2),
       membraneArea |-> ensureNumber(a, Lit_50),
       foulingFactor |-> ensureNumber(f, Lit_0_1)] :
         s \in gridSalinityTexts, t \in gridTemperatureTexts, p \in gridPHTexts,
         tb \in gridTurbidityTexts, a \in gridMembraneAreaTexts,
         f \in gridFoulingFactorTexts }

InitPredict ==
    /\ dataRows = <<>>
    /\ predictedPressure = Null
    /\ formData \in GridFormData
    /\ loadPc = "fetch"
    /\ response = <<>>
    /\ edits = 0
    /\ lastEdit = <<>>
    /\ calcData = <<>>
    /\ calcLog = {}

NextPredict == Calculate

SpecPredict == InitPredict /\ [][NextPredict]_vars

-----------------------------------------------------------------------------
(* The result panel, as the component renders it from its state.           *)

RECURSIVE PadZeros(_, _)
\* the text t with zeros in front, up to n characters
PadZeros(t, n) == IF Len(t) >= n THEN t ELSE PadZeros(<<"0">> \o t, n)

\* x.toFixed(d) for d in 1..RadixDigits and a finite x: the nearest multiple
\* of 10^-d (the larger on a tie of the magnitude), with "-" for x < 0
ToFixed(x, d) ==
    IF IsNaN(x) THEN NaNText
    ELSE IF x.k = "inf" THEN (IF x.s = -1 THEN <<"-">> ELSE <<>>) \o InfinityText
    ELSE LET unit == Pow10(RadixDigits - d)
             half == Tab(LAMBDA i : IF i = FracLimbs THEN 5 * (unit \div 10) ELSE 0,
                         1, NumLimbs)
             y == MagAdd(x.m, half)
             sign == IF x.s = -1 /\ ~MagIsZero(x.m) THEN <<"-">> ELSE <<>>
         IN  sign \o IntText(MagIntPart(y)) \o <<".">>
                  \o PadZeros(IntText(y[FracLimbs] \div unit), d)

\* predictedPressure !== null: the result is shown, else the placeholder
\* 'Enter parameters and click calculate'
ShowsResult == predictedPressure # Null

\* {predictedPressure.toFixed(2)}
DisplayedPressure == ToFixed2(predictedPressure)

\* the 'Input Parameters' beside the result
DisplayedParameters ==
    [salinity |-> ToFixed(formData.salinity, 3),
     temperature |-> ToFixed(formData.temperature, 1),
     foulingFactor |-> ToFixed(formData.foulingFactor, 2),
     turbidity |-> ToFixed(formData.turbidity, 1)]

-----------------------------------------------------------------------------
(* Values and comparisons the properties below are stated with.            *)

\* the number n / 100, for a natural number n
Hundredths(n) ==
    Fin(1, Tab(LAMBDA i : IF i = FracLimbs THEN (n % 100) * (Radix \div 100)
                          ELSE IF i = FracLimbs + 1 THEN (n \div 100) % Radix
                          ELSE IF i = FracLimbs + 2 THEN n \div (100 * Radix)
                          ELSE 0, 1, NumLimbs))

\* the number n / 1000000, for a natural number n
Millionths(n) ==
    LET f == n % 1000000
        w == n \div 1000000
    IN  Fin(1, Tab(LAMBDA i : IF i = FracLimbs - 1 THEN (f % 100) * (Radix \div 100)
                              ELSE IF i = FracLimbs THEN f \div 100
                              ELSE IF i = FracLimbs + 1 THEN w % Radix
                              ELSE IF i = FracLimbs + 2 THEN w \div Radix
                              ELSE 0, 1, NumLimbs))

Zero == Hundredths(0)

NumLessEq(x, y) == NumLess(x, y) \/ NumEq(x, y)

Fields == {"salinity", "temperature", "pH", "turbidity", "membraneArea", "foulingFactor"}

\* two snapshots with all six fields equal as numbers
SameFields(a, b) == \A f \in Fields : NumEq(a[f], b[f])

\* x rounded to the nearest multiple of 0.01 (a tie away from zero)
Round2(x) ==
    IF ~IsFinite(x) THEN x
    ELSE LET z == MagAdd(x.m, Millionths(5000).m)
         IN  Fin(x.s, Tab(LAMBDA i : IF i < FracLimbs THEN 0
                                     ELSE IF i = FracLimbs
                                          THEN (z[i] \div 100) * 100
                                     ELSE z[i], 1, NumLimbs))

\* what the last Calculate read
Read == calcData[1].fd

Calculated == calcData # <<>>

\* the snapshot documented as the reference scenario and as the form's defaults
Reference ==
    [salinity |-> Hundredths(68), temperature |-> Hundredths(2200),
     pH |-> Hundredths(770), turbidity |-> Hundredths(520),
     membraneArea |-> Hundredths(5000), foulingFactor |-> Hundredths(10)]

-----------------------------------------------------------------------------
(* C1 *)

\* the formula as the claim writes it
FormulaValue(fd) ==
    LET osmotic == Mul(Mul(Mul(Hundredths(200), fd.salinity), Millionths(83145)),
                       Add(fd.temperature, Hundredths(27315)))
        afterTemp == Mul(Mul(osmotic, Hundredths(160)),
                         Sub(Hundredths(100),
                             Mul(Millionths(4000), Sub(fd.temperature, Hundredths(2500)))))
        inner == Add(Add(afterTemp, Mul(Hundredths(250), fd.turbidity)),
                     Mul(Hundredths(600), Abs(Sub(fd.pH, Hundredths(775)))))
    IN  Add(Mul(inner, Div(Hundredths(700), Sqrt(fd.membraneArea))),
            Mul(Hundredths(3200), fd.foulingFactor))

\* C1: after Calculate has read a snapshot with membraneArea > 0,
\* predictedPressure is ((2*s*0.083145*(T+273.15))*1.6*(1-0.004*(T-25)) + 2.5*tb
\* + 6.0*|pH-7.75|) * (7.0/sqrt(A)) + 32*f rounded to 2 decimals, and the part
\* of the unrounded value that the fouling factor contributes is 32*f, the
\* same for every membraneArea.
C1_CalculateStoresFormula ==
    Calculated /\ NumLess(Zero, Read.membraneArea) =>
        /\ NumEq(predictedPressure, Round2(FormulaValue(Read)))
        /\ NumEq(Sub(predicted_pressure(Read),
                     predicted_pressure([Read EXCEPT !.foulingFactor = Zero])),
                 Mul(Hundredths(3200), Read.foulingFactor))

C1_Witness ==
    /\ Calculated
    /\ NumEq(Read.membraneArea, Hundredths(1000))
    /\ NumEq(Read.foulingFactor, Hundredths(100))
    /\ NumEq(Read.turbidity, Hundredths(520))
    /\ IsFinite(predictedPressure)

-----------------------------------------------------------------------------
(* C2 *)

\* C2 (as the code has it): the form starts with the reference snapshot, and
\* Calculate on the reference snapshot stores 69.86.
C2_ReferenceGives6986 ==
    /\ edits = 0 => SameFields(formData, Reference)
    /\ Calculated /\ SameFields(Read, Reference) =>
           NumEq(predictedPressure, Hundredths(6986))

\* C2 as claimed: Calculate on the reference snapshot stores a value within
\* 0.01 of 69.97.
C2_ReferenceNear6997 ==
    Calculated /\ SameFields(Read, Reference) =>
        NumLessEq(Abs(Sub(predictedPressure, Hundredths(6997))), Hundredths(1))

C2_Witness == Calculated /\ edits = 0 /\ SameFields(Read, Reference)

-----------------------------------------------------------------------------
(* C3 *)

\* C3 as claimed: Calculate with membraneArea = 0 or membraneArea < 0 fails and
\* stores nothing, so predictedPressure is never NaN or an infinity.
C3_NeverStoresNaNOrInfinity == predictedPressure = Null \/ IsFinite(predictedPressure)

-----------------------------------------------------------------------------
(* C4 *)

\* the extreme input of the claim: salinity 2.0, temperature 5, foulingFactor 1.0
Extreme ==
    [Reference EXCEPT !.salinity = Hundredths(200), !.temperature = Hundredths(500),
                      !.foulingFactor = Hundredths(100)]

\* C4: for membraneArea > 0 the stored value is the rounded value of the
\* unclamped pipeline, also when that lies outside [35, 70]; the extreme input
\* gives a value above 70.
C4_NoClamping ==
    Calculated /\ NumLess(Zero, Read.membraneArea) =>
        /\ NumEq(predictedPressure, Round2(predicted_pressure(Read)))
        /\ SameFields(Read, Extreme) => NumLess(Hundredths(7000), predictedPressure)

C4_Witness ==
    Calculated /\ SameFields(Read, Extreme) /\ NumLess(Hundredths(7000), predictedPressure)

-----------------------------------------------------------------------------
(* C5 *)

\* C5: Calculates that read equal fields store the same value, whatever
\* predictedPressure, dataRows and the history were (calcLog holds as many
\* snapshots as <<snapshot, value>> pairs), and a Calculate that reads what
\* the Calculate before it read leaves predictedPressure as it was.
C5_Deterministic ==
    /\ Cardinality({p[1] : p \in calcLog}) = Cardinality(calcLog)
    /\ Calculated => <<Read, predictedPressure>> \in calcLog
    /\ Calculated /\ calcData[1].repeat => predictedPressure = calcData[1].prev

C5_Witness ==
    /\ Calculated
    /\ calcData[1].seen
    /\ ~calcData[1].repeat
    /\ calcData[1].prev # predictedPressure
    /\ calcData[1].rows # <<>>

-----------------------------------------------------------------------------
(* C6 *)

FoulingValues == {Millionths(100000), Millionths(100100), Millionths(1000000)}
TurbidityValues == {Zero, Millionths(5200000), Millionths(5201000)}

\* the stored results of Read and of Read with the field raised to v, as
\* <<lower, higher>>, for every grid value v above the field's
RaisedPairs(field, values) ==
    { <<v, calculateMinimumPressure([Read EXCEPT ![field] = v])>> :
          v \in {w \in values : NumLess(Read[field], w)} }

\* C6 (as the code has it): for membraneArea > 0, raising foulingFactor or
\* turbidity alone never lowers the predicted pressure, and raises it when
\* the raise adds at least 0.01 to the unrounded value (32 * the raise of
\* foulingFactor, 2.5 * 7.0/sqrt(A) * the raise of turbidity).
C6_NeverLowerWhenRaised ==
    Calculated /\ NumLess(Zero, Read.membraneArea) =>
        /\ \A pr \in RaisedPairs("foulingFactor", FoulingValues) :
               /\ NumLessEq(predictedPressure, pr[2])
               /\ NumLessEq(Hundredths(1),
                            Mul(Hundredths(3200), Sub(pr[1], Read.foulingFactor)))
                      => NumLess(predictedPressure, pr[2])
        /\ \A pr \in RaisedPairs("turbidity", TurbidityValues) :
               /\ NumLessEq(predictedPressure, pr[2])
               /\ NumLessEq(Hundredths(1),
                            Mul(Mul(Hundredths(250), Sub(pr[1], Read.turbidity)),
                                Div(Hundredths(700), Sqrt(Read.membraneArea))))
                      => NumLess(predictedPressure, pr[2])

\* C6 as claimed: for membraneArea > 0, raising foulingFactor or turbidity
\* alone gives a strictly larger predicted pressure.
C6_StrictlyIncreasing ==
    Calculated /\ NumLess(Zero, Read.membraneArea) =>
        /\ \A pr \in RaisedPairs("foulingFactor", FoulingValues) :
               NumLess(predictedPressure, pr[2])
        /\ \A pr \in RaisedPairs("turbidity", TurbidityValues) :
               NumLess(predictedPressure, pr[2])

\* a raise of turbidity that the rounding swallows, and a raise of
\* foulingFactor that shows
C6_Witness ==
    /\ Calculated
    /\ NumLess(Zero, Read.membraneArea)
    /\ \E pr \in RaisedPairs("turbidity", TurbidityValues) :
           NumEq(predictedPressure, pr[2])
    /\ \E pr \in RaisedPairs("foulingFactor", FoulingValues) :
           NumLess(predictedPressure, pr[2])

-----------------------------------------------------------------------------
(* C7 *)

AreaValues == {Hundredths(1000), Hundredths(5000)}

\* pressure_after_temp + turbidity_penalty + pH_penalty
ScaledSum(fd) == Add(Add(pressure_after_temp(fd), turbidity_penalty(fd)), pH_penalty(fd))

\* the scaled portions of Read with every larger grid area
LargerAreaPortions ==
    { scaled_pressure([Read EXCEPT !.membraneArea = a]) :
          a \in {b \in AreaValues : NumLess(Read.membraneArea, b)} }

\* C7 (as the code has it): with the fields in their documented domains and
\* 0 < a1 < a2, the scaled portion for a2 is never larger than for a1; it is
\* strictly smaller when the sum of the three scaled terms is positive, and
\* it is 0 for both when that sum is 0.
C7_ScaledPortionNeverLarger ==
    Calculated /\ NumLess(Zero, Read.membraneArea) =>
        \A s2 \in LargerAreaPortions :
            /\ NumLessEq(s2, scaled_pressure(Read))
            /\ NumLess(Zero, ScaledSum(Read)) => NumLess(s2, scaled_pressure(Read))
            /\ IsZero(ScaledSum(Read)) => IsZero(s2) /\ IsZero(scaled_pressure(Read))

\* C7 as claimed: the scaled portion is strictly smaller for the larger area.
C7_ScaledPortionStrictlySmaller ==
    Calculated /\ NumLess(Zero, Read.membraneArea) =>
        \A s2 \in LargerAreaPortions : NumLess(s2, scaled_pressure(Read))

C7_Witness ==
    /\ Calculated
    /\ NumEq(Read.membraneArea, Hundredths(1000))
    /\ LargerAreaPortions # {}
    /\ IsZero(ScaledSum(Read))
    /\ IsZero(scaled_pressure(Read))

-----------------------------------------------------------------------------
(* C8 *)

\* Read with pH at 7.75 - d and at 7.75 + d, for d the distance of Read.pH
\* from 7.75
BelowOptimum ==
    [Read EXCEPT !.pH = Sub(Hundredths(775), Abs(Sub(Read.pH, Hundredths(775))))]
AboveOptimum ==
    [Read EXCEPT !.pH = Add(Hundredths(775), Abs(Sub(Read.pH, Hundredths(775))))]

\* C8: the pH penalty is the same at 7.75 - d and at 7.75 + d, and two
\* snapshots that differ only in that get the same predicted pressure.
C8_PHSymmetric ==
    Calculated =>
        /\ NumEq(pH_penalty(BelowOptimum), pH_penalty(AboveOptimum))
        /\ predictedPressure = calculateMinimumPressure(BelowOptimum)
        /\ predictedPressure = calculateMinimumPressure(AboveOptimum)

C8_Witness ==
    /\ Calculated
    /\ NumEq(Read.pH, Hundredths(780))
    /\ NumEq(BelowOptimum.pH, Hundredths(770))
    /\ IsFinite(predictedPressure)

-----------------------------------------------------------------------------
(* C9 *)

\* what the claim has an edit of the field with the text store
EditedTo(fd, field, text) ==
    [fd EXCEPT ![field] = IF IsNaN(ParseFloat(text)) THEN Reference[field]
                          ELSE ParseFloat(text)]

\* C9: no field is ever NaN, and an edit changes the edited field alone, to
\* the number its text parses to or, when the text does not parse, to the
\* field's documented default (0.68, 22, 7.7, 5.2, 50, 0.1).
C9_EditStoresNumberOrDefault ==
    [][ /\ \A f \in Fields : ~IsNaN(formData[f]) /\ ~IsNaN(formData'[f])
        /\ edits' # edits =>
               /\ SameFields(formData',
                             EditedTo(formData, lastEdit'[1].field, lastEdit'[1].text))
               /\ \A f \in Fields \ {lastEdit'[1].field} : formData'[f] = formData[f]
      ]_vars

\* a text that does not parse typed into a field that held another value
\* than its default
C9_Witness ==
    /\ lastEdit # <<>>
    /\ IsNaN(ParseFloat(lastEdit[1].text))
    /\ ~NumEq(lastEdit[1].before, Reference[lastEdit[1].field])
    /\ NumEq(formData[lastEdit[1].field], Reference[lastEdit[1].field])

-----------------------------------------------------------------------------
(* C10 *)

\* C10: a step of the sample-data load leaves the six fields and
\* predictedPressure as they are, wherever it falls among edits and
\* Calculates; dataRows changes in no other step; and what a Calculate
\* stores is what every Calculate of the same fields stored, with the rows
\* loaded or not.
C10_LoadChangesOnlyRows ==
    [][ /\ loadPc' # loadPc \/ dataRows' # dataRows \/ response' # response =>
               /\ formData' = formData
               /\ predictedPressure' = predictedPressure
        /\ dataRows' # dataRows => loadPc = "text" /\ loadPc' = "done"
        /\ Calculated' =>
               \A p \in calcLog' : p[1] = calcData'[1].fd => p[2] = predictedPressure'
      ]_vars

\* the rows arrived after an edit and a Calculate
C10_Witness ==
    /\ Calculated
    /\ calcData[1].rows = <<>>
    /\ dataRows # <<>>
    /\ edits > 0
    /\ predictedPressure # Null
    /\ ~SameFields(formData, Reference)

-----------------------------------------------------------------------------
(* C11 *)

\* Read with the temperature at 25
At25 == [Read EXCEPT !.temperature = Hundredths(2500)]

\* the term of the formula the temperature enters, as the claim writes it:
\* 2*s*0.083145*(T+273.15) * 1.6 * (1-0.004*(T-25)) * 7.0/sqrt(A)
TemperatureTerm(fd) ==
    Mul(Mul(Mul(Mul(Mul(Mul(Hundredths(200), fd.salinity), Millionths(83145)),
                    Add(fd.temperature, Hundredths(27315))),
                Hundredths(160)),
            Sub(Hundredths(100),
                Mul(Millionths(4000), Sub(fd.temperature, Hundredths(2500))))),
        Div(Hundredths(700), Sqrt(fd.membraneArea)))

\* salinity > 0, membraneArea > 0 and the temperature in [5, 50]
TemperatureCase ==
    /\ Calculated
    /\ NumLess(Zero, Read.salinity)
    /\ NumLess(Zero, Read.membraneArea)
    /\ NumLessEq(Hundredths(500), Read.temperature)
    /\ NumLessEq(Read.temperature, Hundredths(5000))

\* C11 (as the code has it): with salinity > 0 and membraneArea > 0, the
\* predicted pressure at a temperature in [5, 25) is never lower than at 25,
\* and at a temperature in (25, 50] never higher; it differs from the one at
\* 25 when the temperature term of the unrounded value differs by 0.01 or more.
C11_TemperatureNeverAgainst ==
    TemperatureCase =>
        LET at25 == calculateMinimumPressure(At25)
            apart == NumLessEq(Hundredths(1),
                               Abs(Sub(TemperatureTerm(Read), TemperatureTerm(At25))))
        IN  /\ NumLess(Read.temperature, Hundredths(2500)) =>
                   /\ NumLessEq(at25, predictedPressure)
                   /\ apart => NumLess(at25, predictedPressure)
            /\ NumLess(Hundredths(2500), Read.temperature) =>
                   /\ NumLessEq(predictedPressure, at25)
                   /\ apart => NumLess(predictedPressure, at25)

\* C11 as claimed: the predicted pressure at a temperature in [5, 25) is
\* higher than at 25, and at a temperature in (25, 50] lower.
C11_TemperatureStrict ==
    TemperatureCase =>
        /\ NumLess(Read.temperature, Hundredths(2500)) =>
               NumLess(calculateMinimumPressure(At25), predictedPressure)
        /\ NumLess(Hundredths(2500), Read.temperature) =>
               NumLess(predictedPressure, calculateMinimumPressure(At25))

\* the reference snapshot at 24.9 degrees: the same stored value as at 25
C11_Witness ==
    /\ TemperatureCase
    /\ SameFields(Read, [Reference EXCEPT !.temperature = Hundredths(2490)])
    /\ NumEq(predictedPressure, calculateMinimumPressure(At25))

-----------------------------------------------------------------------------
(* C12 *)

\* the 'Input Parameters' the panel would show for the fields of the last
\* Calculate
ParametersAtCalculate ==
    [salinity |-> ToFixed(Read.salinity, 3),
     temperature |-> ToFixed(Read.temperature, 1),
     foulingFactor |-> ToFixed(Read.foulingFactor, 2),
     turbidity |-> ToFixed(Read.turbidity, 1)]

\* C12: an edit of a form field leaves predictedPressure, and with it the
\* pressure on display, as it was; predictedPressure changes only in a Calculate, to
\* the value computed from the form fields of that moment; so at any time
\* after a Calculate the value on display is the one computed from the fields
\* as they were at the last Calculate, whatever the fields are by then.
C12_EditsKeepResult ==
    [][/\ edits' # edits =>
              /\ predictedPressure' = predictedPressure
              /\ calcData' = calcData
              /\ ShowsResult' = ShowsResult
       /\ predictedPressure' # predictedPressure =>
              /\ edits' = edits
              /\ formData' = formData
              /\ Read' = formData
              /\ <<formData, predictedPressure'>> \in calcLog'
       /\ Calculated' => <<Read', predictedPressure'>> \in calcLog']_vars

\* after a Calculate and an edit: the pressure on display is the prediction
\* for the fields of the Calculate and not the one for the fields shown
\* beside it
C12_Witness ==
    /\ Calculated
    /\ lastEdit # <<>>
    /\ formData # Read
    /\ DisplayedParameters # ParametersAtCalculate
    /\ ShowsResult
    /\ DisplayedPressure = ToFixed2(calculateMinimumPressure(Read))
    /\ DisplayedPressure # ToFixed2(calculateMinimumPressure(formData))

-----------------------------------------------------------------------------
(* C13 *)

\* C13: until the first Calculate predictedPressure is null and the
\* placeholder is shown, whatever edits and loads have happened; from the
\* first Calculate on predictedPressure is a number (NaN and Infinity
\* included), never null, and the result is shown.
C13_NullUntilFirstCalculate ==
    /\ ~Calculated => predictedPressure = Null /\ ~ShowsResult
    /\ Calculated => /\ predictedPressure # Null
                     /\ predictedPressure.k \in {"fin", "nan", "inf"}
                     /\ ShowsResult

\* the first Calculate came after a load and an edit, and another edit
\* followed it
C13_Witness ==
    /\ Calculated
    /\ calcData[1].prev = Null
    /\ calcData[1].rows # <<>>
    /\ Read # InitialFormData
    /\ formData # Read
    /\ ShowsResult

====
